---- MODULE Spec2Model ----
(***************************************************************************)
(* Model of backend/app/rag.py: the two ingestion coroutines               *)
(* (process_document, process_website) and the query coroutine (query_rag) *)
(* running as concurrent requests over the Chroma vector store, the        *)
(* chat_documents collection and the chats collection.                     *)
(*                                                                         *)
(* Every call into a collaborator (loader / HTTP fetch, Chroma, MongoDB,   *)
(* prompt construction, the generation endpoint) either succeeds or        *)
(* raises; which one is the environment's choice.                          *)
(***************************************************************************)
EXTENDS Integers, Sequences, FiniteSets, TLC

VARIABLES
    vectors,             \* ./chroma_db: collection name -> set of stored chunks
    records,             \* db.chat_documents: set of document records
    chats,               \* db.chats: chat id -> message list, or NoChat
    req,                 \* the requests in flight: request -> locals of its coroutine
    h_pc,                \* history-window development: position
    h_messages,          \*   chat["messages"]
    h_context_messages,  \*   context_messages
    h_context_str        \*   context_str

vars == <<vectors, records, chats, req,
          h_pc, h_messages, h_context_messages, h_context_str>>

mainVars == <<vectors, records, chats, req>>
histVars == <<h_pc, h_messages, h_context_messages, h_context_str>>

----------------------------------------------------------------------------
(* Bounds *)

MaxReqs == 2
MaxChunks == 1
MaxMsgs == 7

(* Program constants *)

RetrieverK == 5
HistoryWindow == 6

\* request 0 stands for a call that completed before the others arrive
Reqs == 0..MaxReqs
ChatIds == {"A", "B"}
Roles == {"user", "assistant", "system"}

NoChat == "NoChat"
NoId == "unset"

APOLOGY == "I'm sorry, I encountered a problem while processing your question. Please try again or rephrase your question."
ANSWER == "answer"

FILE_NAME == "notes.txt"
URL == "http://site"

----------------------------------------------------------------------------
(* Helpers *)

Min(a, b) == IF a < b THEN a ELSE b
Max(a, b) == IF a > b THEN a ELSE b

\* sum of chunk_count over a set of document records
RECURSIVE SumChunkCount(_)
SumChunkCount(S) ==
    IF S = {} THEN 0
    ELSE LET e == CHOOSE e \in S : TRUE
         IN  e.chunk_count + SumChunkCount(S \ {e})

----------------------------------------------------------------------------
(* Vector store (langchain Chroma over ./chroma_db) *)

\* Variant: one collection for every chat.
NamespaceOf_Shared(chat_id) == "chat_"

\* collection_name=f"chat_{chat_id}"
NamespaceOf(chat_id) == "chat_" \o chat_id

\* Variant: the constructor recreates the collection, dropping its content.
Chroma_Recreate(v, ns) ==
    [n \in DOMAIN v \cup {ns} |-> IF n = ns THEN {} ELSE v[n]]

\* The Chroma(...) constructor get-or-creates the named collection: an
\* absent collection comes into existence, empty; a present one is reopened.
Chroma(v, ns) ==
    IF ns \in DOMAIN v THEN v
    ELSE [n \in DOMAIN v \cup {ns} |-> IF n = ns THEN {} ELSE v[n]]

\* Variant: from_documents replaces the collection's content.
ChromaFromDocuments_Replace(v, ns, splits) ==
    [n \in DOMAIN v \cup {ns} |-> IF n = ns THEN splits ELSE v[n]]

\* Chroma.from_documents(documents=splits, collection_name=ns): get-or-create
\* the collection, then add the chunks under fresh ids.
ChromaFromDocuments(v, ns, splits) ==
    [n \in DOMAIN v \cup {ns} |->
        IF n = ns THEN Chroma(v, ns)[ns] \cup splits ELSE v[n]]

\* retriever with search_kwargs={"k": k}: the possible results of one
\* similarity search, any k (or all, if fewer) of the collection's chunks.
SimilaritySearch(v, ns, k) ==
    LET all == IF ns \in DOMAIN v THEN v[ns] ELSE {}
    IN  {S \in SUBSET all : Cardinality(S) = Min(k, Cardinality(all))}

----------------------------------------------------------------------------
(* Ingestion: chunks and the document record *)

\* Variant: a chunk is stored under an id derived from its content, so the
\* same content is stored once.
Splits_ContentIds(chat_id, source, id, n) ==
    {[id |-> <<source, k>>, source |-> source, chat_id |-> chat_id, page |-> k] :
        k \in 1..n}

\* The chunks text_splitter.split_documents yields for a source that splits
\* into n chunks; every chunk inherits the metadata {source, chat_id} set on
\* the loaded document and is stored under an id of its own.
Splits(chat_id, source, id, n) ==
    {[id |-> <<id, k>>, source |-> source, chat_id |-> chat_id, page |-> k] :
        k \in 1..n}

\* str(uuid.uuid4()): the value drawn by request r; two draws never agree
Uuid4(r) == "uuid-" \o ToString(r)

\* Variant: chunk_count is off by one.
DocumentRecord_OverCount(id, chat_id, name, type, splits) ==
    [id |-> id, chat_id |-> chat_id, name |-> name, type |-> type,
     chunk_count |-> Cardinality(splits) + 1]

DocumentRecord(id, chat_id, name, type, splits) ==
    [id |-> id, chat_id |-> chat_id, name |-> name, type |-> type,
     chunk_count |-> Cardinality(splits)]

\* db.chat_documents.insert_one(document_record)
InsertOne(recs, rec) == recs \cup {rec}

----------------------------------------------------------------------------
(* Query: the chat-history block *)

\* Variant: messages[:6], the first messages instead of the last.
LastMessages_First(messages) ==
    SubSeq(messages, 1, Min(HistoryWindow, Len(messages)))

\* messages[-6:]
LastMessages(messages) ==
    SubSeq(messages, Max(1, Len(messages) - HistoryWindow + 1), Len(messages))

\* one pass of the loop body over msg
ContextLine(msg) ==
    IF msg.role = "user" THEN <<"Human: " \o msg.content>>
    ELSE IF msg.role = "assistant" THEN <<"Assistant: " \o msg.content>>
    ELSE <<>>

\* for msg in messages[-6:]: ... context_messages.append(...)
RECURSIVE ContextMessages(_)
ContextMessages(msgs) ==
    IF msgs = <<>> THEN <<>>
    ELSE ContextLine(Head(msgs)) \o ContextMessages(Tail(msgs))

\* "\n".join(context_messages)
RECURSIVE Join(_)
Join(lines) ==
    IF lines = <<>> THEN ""
    ELSE IF Len(lines) = 1 THEN lines[1]
    ELSE lines[1] \o "\n" \o Join(Tail(lines))

ContextStr(messages) == Join(ContextMessages(LastMessages(messages)))

----------------------------------------------------------------------------
(* Requests *)

IdleReq ==
    [kind |-> "none", chat_id |-> "", source |-> "", pc |-> "idle",
     err |-> "none", steps |-> <<>>, doc_id |-> NoId, splits |-> {},
     docs |-> {}, context_str |-> "", result |-> ""]

SampleMessages ==
    << [role |-> "user", content |-> "hi"],
       [role |-> "system", content |-> "sys"],
       [role |-> "assistant", content |-> "hello"] >>

\* a process_document call for chat "B" that has returned
PriorIngest ==
    [IdleReq EXCEPT !.kind = "document", !.chat_id = "B", !.source = FILE_NAME,
                    !.pc = "returned", !.steps = <<"load", "upsert", "record">>,
                    !.doc_id = Uuid4(0),
                    !.splits = Splits("B", FILE_NAME, Uuid4(0), 1)]

\* The stores hold what one earlier ingestion for chat "B" left, and nothing
\* for chat "A"; chat "A" has a chat record, chat "B" has one or none.
Init ==
    /\ req = [r \in Reqs |-> IF r = 0 THEN PriorIngest ELSE IdleReq]
    /\ vectors = ChromaFromDocuments(<< >>, NamespaceOf("B"), PriorIngest.splits)
    /\ records = InsertOne({}, DocumentRecord(PriorIngest.doc_id, "B", FILE_NAME,
                                              "document", PriorIngest.splits))
    /\ chats \in {ch \in [ChatIds -> {NoChat, SampleMessages}] : ch["A"] # NoChat}
    /\ h_pc = "off"
    /\ h_messages = <<>>
    /\ h_context_messages = <<>>
    /\ h_context_str = ""

\* requests are numbered in the order they arrive
CanStart(r) ==
    /\ r >= 1
    /\ req[r].kind = "none"
    /\ IF r = 1 THEN TRUE ELSE req[r - 1].kind # "none"

Start(r, kind, chat_id, source) ==
    /\ CanStart(r)
    /\ req' = [req EXCEPT ![r] = [IdleReq EXCEPT !.kind = kind,
                   !.chat_id = chat_id, !.source = source, !.pc = "received"]]
    /\ UNCHANGED <<vectors, records, chats, histVars>>

StartDocument(r, chat_id) == Start(r, "document", chat_id, FILE_NAME)
StartWebsite(r, chat_id) == Start(r, "website", chat_id, URL)
StartQuery(r, chat_id) == Start(r, "query", chat_id, "")

IsIngest(r) == req[r].kind \in {"document", "website"}

\* the exception leaves the coroutine (process_document: raise at the loader,
\* or an uncaught exception later; process_website: except ...: raise)
Raise(r, step) ==
    [req[r] EXCEPT !.pc = "raised", !.err = step, !.steps = @ \o <<step>>]

----------------------------------------------------------------------------
(* process_document / process_website *)

\* loader.load() / requests.get + raise_for_status + parse, then metadata,
\* split and uuid4.
LoadOk(r, n) ==
    /\ IsIngest(r) /\ req[r].pc = "received"
    /\ req' = [req EXCEPT ![r] = [@ EXCEPT !.pc = "loaded",
                   !.steps = @ \o <<"load">>,
                   !.doc_id = Uuid4(r),
                   !.splits = Splits(req[r].chat_id, req[r].source, Uuid4(r), n)]]
    /\ UNCHANGED <<vectors, records, chats, histVars>>

\* Variant: a failed load still writes a record, of no chunks.
LoadFail_PartialRecord(r) ==
    /\ IsIngest(r) /\ req[r].pc = "received"
    /\ records' = InsertOne(records,
                     DocumentRecord(Uuid4(r), req[r].chat_id, req[r].source,
                                    req[r].kind, {}))
    /\ req' = [req EXCEPT ![r] = Raise(r, "load")]
    /\ UNCHANGED <<vectors, chats, histVars>>

LoadFail(r) ==
    /\ IsIngest(r) /\ req[r].pc = "received"
    /\ req' = [req EXCEPT ![r] = Raise(r, "load")]
    /\ UNCHANGED <<vectors, records, chats, histVars>>

\* Chroma.from_documents(...)
UpsertOk(r) ==
    /\ IsIngest(r) /\ req[r].pc = "loaded"
    /\ vectors' = ChromaFromDocuments(vectors, NamespaceOf(req[r].chat_id),
                                      req[r].splits)
    /\ req' = [req EXCEPT ![r] = [@ EXCEPT !.pc = "upserted",
                   !.steps = @ \o <<"upsert">>]]
    /\ UNCHANGED <<records, chats, histVars>>

\* Chroma.from_documents raises: before the collection was opened, or after
\* it was opened and before any chunk was added
UpsertFail(r) ==
    /\ IsIngest(r) /\ req[r].pc = "loaded"
    /\ vectors' \in {vectors, Chroma(vectors, NamespaceOf(req[r].chat_id))}
    /\ req' = [req EXCEPT ![r] = Raise(r, "upsert")]
    /\ UNCHANGED <<records, chats, histVars>>

\* await db.chat_documents.insert_one(document_record); return doc_id
RecordOk(r) ==
    /\ IsIngest(r) /\ req[r].pc = "upserted"
    /\ records' = InsertOne(records,
                     DocumentRecord(req[r].doc_id, req[r].chat_id,
                                    req[r].source, req[r].kind, req[r].splits))
    /\ req' = [req EXCEPT ![r] = [@ EXCEPT !.pc = "returned",
                   !.steps = @ \o <<"record">>]]
    /\ UNCHANGED <<vectors, chats, histVars>>

\* Variant: a failed record write deletes the chunks it follows.
RecordFail_Rollback(r) ==
    /\ IsIngest(r) /\ req[r].pc = "upserted"
    /\ vectors' = [vectors EXCEPT ![NamespaceOf(req[r].chat_id)] =
                       @ \ req[r].splits]
    /\ req' = [req EXCEPT ![r] = Raise(r, "record")]
    /\ UNCHANGED <<records, chats, histVars>>

RecordFail(r) ==
    /\ IsIngest(r) /\ req[r].pc = "upserted"
    /\ req' = [req EXCEPT ![r] = Raise(r, "record")]
    /\ UNCHANGED <<vectors, records, chats, histVars>>

----------------------------------------------------------------------------
(* query_rag *)

IsQuery(r) == req[r].kind = "query"

\* Variant: the handler returns the error text.
Degrade_ErrorText(r, step) ==
    [req[r] EXCEPT !.pc = "degraded", !.err = step, !.steps = @ \o <<step>>,
                   !.result = "Error querying RAG system: " \o step]

\* except Exception as e: print(...); return <the apology>
Degrade(r, step) ==
    [req[r] EXCEPT !.pc = "degraded", !.err = step, !.steps = @ \o <<step>>,
                   !.result = APOLOGY]

\* vectorstore = Chroma(collection_name=f"chat_{chat_id}", ...);
\* retriever = vectorstore.as_retriever(search_kwargs={"k": 5})
\* (as_retriever builds the retriever object; it searches nothing yet)
QLoadOk(r) ==
    /\ IsQuery(r) /\ req[r].pc = "received"
    /\ vectors' = Chroma(vectors, NamespaceOf(req[r].chat_id))
    /\ req' = [req EXCEPT ![r] = [@ EXCEPT !.pc = "namespace-loaded",
                   !.steps = @ \o <<"namespace-load">>]]
    /\ UNCHANGED <<records, chats, histVars>>

QLoadFail(r) ==
    /\ IsQuery(r) /\ req[r].pc = "received"
    /\ req' = [req EXCEPT ![r] = Degrade(r, "namespace-load")]
    /\ UNCHANGED <<vectors, records, chats, histVars>>

\* chat = await db.chats.find_one({"_id": chat_id});
\* messages = chat.get("messages", []); the loop; context_str = "\n".join(...)
QHistoryOk(r) ==
    /\ IsQuery(r) /\ req[r].pc = "namespace-loaded"
    /\ chats[req[r].chat_id] # NoChat
    /\ req' = [req EXCEPT ![r] = [@ EXCEPT !.pc = "history-assembled",
                   !.steps = @ \o <<"history-read">>,
                   !.context_str = ContextStr(chats[req[r].chat_id])]]
    /\ UNCHANGED <<vectors, records, chats, histVars>>

\* find_one raises, or returns None and chat.get raises AttributeError
QHistoryFail(r) ==
    /\ IsQuery(r) /\ req[r].pc = "namespace-loaded"
    /\ req' = [req EXCEPT ![r] = Degrade(r, "history-read")]
    /\ UNCHANGED <<vectors, records, chats, histVars>>

\* ChatPromptTemplate.from_template, create_stuff_documents_chain,
\* create_retrieval_chain
QPromptOk(r) ==
    /\ IsQuery(r) /\ req[r].pc = "history-assembled"
    /\ req' = [req EXCEPT ![r] = [@ EXCEPT !.pc = "prompt-built",
                   !.steps = @ \o <<"prompt-build">>]]
    /\ UNCHANGED <<vectors, records, chats, histVars>>

QPromptFail(r) ==
    /\ IsQuery(r) /\ req[r].pc = "history-assembled"
    /\ req' = [req EXCEPT ![r] = Degrade(r, "prompt-build")]
    /\ UNCHANGED <<vectors, records, chats, histVars>>

\* retrieval_chain.invoke(...), first half: the retriever runs its search.
\* Whether the chain's steps succeed is left to the environment, as for every
\* other collaborator.  (langchain's create_retrieval_chain feeds the
\* retriever from x["input"], a key this call does not pass, so with that
\* library the failing branch, QRetrieveFail, is the one taken; the model
\* keeps both branches and so covers every behaviour of either reading.)
QRetrieveOk(r, docs) ==
    /\ IsQuery(r) /\ req[r].pc = "prompt-built"
    /\ docs \in SimilaritySearch(vectors, NamespaceOf(req[r].chat_id), RetrieverK)
    /\ req' = [req EXCEPT ![r] = [@ EXCEPT !.pc = "retrieved",
                   !.steps = @ \o <<"retrieval">>, !.docs = docs]]
    /\ UNCHANGED <<vectors, records, chats, histVars>>

QRetrieveFail(r) ==
    /\ IsQuery(r) /\ req[r].pc = "prompt-built"
    /\ req' = [req EXCEPT ![r] = Degrade(r, "retrieval")]
    /\ UNCHANGED <<vectors, records, chats, histVars>>

\* retrieval_chain.invoke(...), second half: the stuffed prompt goes to the
\* llm; return response["answer"]
QGenerateOk(r) ==
    /\ IsQuery(r) /\ req[r].pc = "retrieved"
    /\ req' = [req EXCEPT ![r] = [@ EXCEPT !.pc = "answered",
                   !.steps = @ \o <<"generation">>, !.result = ANSWER]]
    /\ UNCHANGED <<vectors, records, chats, histVars>>

\* Variant: a failed generation is tried again.
QGenerateFail_Retry(r) ==
    /\ IsQuery(r) /\ req[r].pc = "retrieved"
    /\ Len(req[r].steps) < 6
    /\ req' = [req EXCEPT ![r] = [@ EXCEPT !.steps = @ \o <<"generation">>]]
    /\ UNCHANGED <<vectors, records, chats, histVars>>

QGenerateFail(r) ==
    /\ IsQuery(r) /\ req[r].pc = "retrieved"
    /\ req' = [req EXCEPT ![r] = Degrade(r, "generation")]
    /\ UNCHANGED <<vectors, records, chats, histVars>>

----------------------------------------------------------------------------

Next ==
    \/ \E r \in Reqs, c \in ChatIds : StartDocument(r, c)
    \/ \E r \in Reqs, c \in ChatIds : StartWebsite(r, c)
    \/ \E r \in Reqs, c \in ChatIds : StartQuery(r, c)
    \/ \E r \in Reqs, n \in 0..MaxChunks : LoadOk(r, n)
    \/ \E r \in Reqs : LoadFail(r)
    \/ \E r \in Reqs : UpsertOk(r)
    \/ \E r \in Reqs : UpsertFail(r)
    \/ \E r \in Reqs : RecordOk(r)
    \/ \E r \in Reqs : RecordFail(r)
    \/ \E r \in Reqs : QLoadOk(r)
    \/ \E r \in Reqs : QLoadFail(r)
    \/ \E r \in Reqs : QHistoryOk(r)
    \/ \E r \in Reqs : QHistoryFail(r)
    \/ \E r \in Reqs : QPromptOk(r)
    \/ \E r \in Reqs : QPromptFail(r)
    \/ \E r \in Reqs, docs \in SUBSET UNION {vectors[n] : n \in DOMAIN vectors} :
           QRetrieveOk(r, docs)
    \/ \E r \in Reqs : QRetrieveFail(r)
    \/ \E r \in Reqs : QGenerateOk(r)
    \/ \E r \in Reqs : QGenerateFail(r)

Spec == Init /\ [][Next]_vars

----------------------------------------------------------------------------
(* The chat-history block on its own: every message list up to MaxMsgs     *)
(* messages, message i carrying the content "m<i>".                        *)

HistInputs ==
    UNION { { [i \in 1..n |-> [role |-> f[i], content |-> "m" \o ToString(i)]] :
                f \in [1..n -> Roles] } : n \in 0..MaxMsgs }

InitHist ==
    /\ vectors = << >>
    /\ records = {}
    /\ chats = [c \in ChatIds |-> NoChat]
    /\ req = [r \in Reqs |-> IdleReq]
    /\ h_pc = "read"
    /\ h_messages \in HistInputs
    /\ h_context_messages = <<>>
    /\ h_context_str = ""

\* query_rag lines 171-181 on messages = h_messages
HistAssemble ==
    /\ h_pc = "read"
    /\ h_context_messages' = ContextMessages(LastMessages(h_messages))
    /\ h_context_str' = ContextStr(h_messages)
    /\ h_pc' = "assembled"
    /\ UNCHANGED <<mainVars, h_messages>>

NextHist == HistAssemble

SpecHist == InitHist /\ [][NextHist]_vars

----------------------------------------------------------------------------
(* Properties *)

Ingests == {r \in Reqs : IsIngest(r)}
Queries == {r \in Reqs : IsQuery(r)}
IngestsOf(c) == {r \in Ingests : req[r].chat_id = c}
RecordsOf(c) == {rec \in records : rec.chat_id = c}
ChunksOf(c) ==
    IF NamespaceOf(c) \in DOMAIN vectors THEN vectors[NamespaceOf(c)] ELSE {}

\* request r takes a step
Steps(r) == req'[r] # req[r]

IsPrefix(s, t) == Len(s) <= Len(t) /\ s = SubSeq(t, 1, Len(s))

\* C1: query_rag never raises: a query request never ends raised, what it
\* returns is a string, and whenever one of its steps failed (namespace load,
\* history read - the only outcome for a chat id without a chat record -,
\* prompt building, retrieval, generation) what it returns is exactly the
\* fixed apology.
C1_QueryNeverRaises ==
    \A r \in Queries :
        /\ req[r].pc # "raised"
        /\ req[r].result \in STRING
        /\ req[r].pc \in {"answered", "degraded"} => req[r].result # ""
        /\ req[r].err # "none" =>
              req[r].pc = "degraded" /\ req[r].result = APOLOGY
        /\ (req[r].pc = "history-assembled" \/ "prompt-build" \in
              {req[r].steps[i] : i \in DOMAIN req[r].steps}) =>
              chats[req[r].chat_id] # NoChat

C1_Witness ==
    \E r \in Queries :
        /\ chats[req[r].chat_id] = NoChat
        /\ req[r].err = "history-read"
        /\ req[r].result = APOLOGY

\* C2: cross-chat isolation: every chunk stored in namespace "chat_A" carries
\* chat_id = A, and every chunk a query for chat A retrieved carries
\* chat_id = A.
C2_Isolation ==
    /\ \A c \in ChatIds : \A ch \in ChunksOf(c) : ch.chat_id = c
    /\ \A n \in DOMAIN vectors : \E c \in ChatIds : n = "chat_" \o c
    /\ \A r \in Queries : \A d \in req[r].docs : d.chat_id = req[r].chat_id

C2_Witness ==
    \E r \in Queries, c \in ChatIds :
        /\ c # req[r].chat_id
        /\ ChunksOf(c) # {}
        /\ req[r].docs # {}

\* C3: ingestion is append-only and not idempotent: a successful upsert grows
\* the chat's namespace by exactly the call's chunks, all new, and touches no
\* other namespace; the successful record write that follows adds exactly one
\* record, under an id no existing record has, with chunk_count the number of
\* chunks upserted; and no step of any request removes or changes a record or
\* a chunk.
C3_AppendOnly ==
    [][ /\ records \subseteq records'
        /\ \A n \in DOMAIN vectors :
              n \in DOMAIN vectors' /\ vectors[n] \subseteq vectors'[n]
        /\ \A r \in Ingests :
              /\ (req[r].pc = "loaded" /\ req'[r].pc = "upserted") =>
                    LET ns == "chat_" \o req[r].chat_id
                        old == IF ns \in DOMAIN vectors THEN vectors[ns] ELSE {}
                    IN  /\ Cardinality(vectors'[ns]) =
                              Cardinality(old) + Cardinality(req[r].splits)
                        /\ \A n \in DOMAIN vectors' \ {ns} :
                              n \in DOMAIN vectors /\ vectors'[n] = vectors[n]
                        /\ records' = records
              /\ (req[r].pc = "upserted" /\ req'[r].pc = "returned") =>
                    /\ Cardinality(records') = Cardinality(records) + 1
                    /\ \A rec \in records' \ records :
                          /\ \A old \in records : old.id # rec.id
                          /\ rec.id = req[r].doc_id
                          /\ rec.chunk_count = Cardinality(req[r].splits)
                    /\ vectors' = vectors
      ]_vars

\* the same call made twice, both returned: two records, twice the chunks
C3_Witness ==
    \E r1, r2 \in Ingests :
        /\ r1 # r2
        /\ req[r1].pc = "returned" /\ req[r2].pc = "returned"
        /\ req[r1].kind = req[r2].kind
        /\ req[r1].chat_id = req[r2].chat_id
        /\ req[r1].source = req[r2].source
        /\ Cardinality(req[r1].splits) = Cardinality(req[r2].splits)
        /\ req[r1].splits # {}
        /\ Cardinality(RecordsOf(req[r1].chat_id)) >= 2
        /\ Cardinality(ChunksOf(req[r1].chat_id)) >=
              2 * Cardinality(req[r1].splits)

\* C4: history window: for a message list of length n the context block is
\* made of exactly the messages among the last min(6, n) whose role is user
\* or assistant, in their order, each as "Human: <content>" or
\* "Assistant: <content>", joined by newlines.
C4_Kept ==
    LET n == Len(h_messages)
    IN  {i \in (n - Min(6, n) + 1)..n :
            h_messages[i].role \in {"user", "assistant"}}

\* the k-th smallest index kept
C4_Nth(k) ==
    CHOOSE i \in C4_Kept : Cardinality({j \in C4_Kept : j <= i}) = k

C4_Format(msg) ==
    (IF msg.role = "user" THEN "Human: " ELSE "Assistant: ") \o msg.content

RECURSIVE C4_JoinFromRight(_)
C4_JoinFromRight(lines) ==
    IF Len(lines) = 0 THEN ""
    ELSE IF Len(lines) = 1 THEN lines[1]
    ELSE C4_JoinFromRight(SubSeq(lines, 1, Len(lines) - 1))
            \o "\n" \o lines[Len(lines)]

C4_HistoryWindow ==
    h_pc = "assembled" =>
        /\ Len(h_context_messages) = Cardinality(C4_Kept)
        /\ \A k \in 1..Len(h_context_messages) :
              h_context_messages[k] = C4_Format(h_messages[C4_Nth(k)])
        /\ h_context_str =
              C4_JoinFromRight([k \in 1..Cardinality(C4_Kept) |->
                                   C4_Format(h_messages[C4_Nth(k)])])

\* more than 6 messages, a dropped role inside the window, a user message
\* older than the window
C4_Witness ==
    /\ h_pc = "assembled"
    /\ Len(h_messages) > 6
    /\ \E i \in (Len(h_messages) - 5)..Len(h_messages) :
          h_messages[i].role = "system"
    /\ h_messages[1].role = "user"
    /\ Len(h_context_messages) \in 1..5

\* C5: an ingestion whose first step (loader / fetch) fails raises to its
\* caller, is not retried, and leaves no partial result: the failing step adds
\* no chunk to any namespace and writes no record, and the request ends there.
C5_LoadFailureLeavesNothing ==
    [][ \A r \in Ingests :
          /\ (req[r].pc = "received" /\ req'[r].err = "load") =>
                /\ req'[r].pc = "raised"
                /\ req'[r].steps = <<"load">>
                /\ req'[r].doc_id = NoId /\ req'[r].splits = {}
                /\ vectors' = vectors
                /\ records' = records
          /\ (req[r].pc = "received" /\ req'[r].pc = "raised") =>
                req'[r].err = "load"
          /\ req[r].err = "load" => req'[r] = req[r]
      ]_vars

C5_Witness ==
    \E r1, r2 \in Ingests :
        /\ req[r1].kind = "document" /\ req[r2].kind = "website"
        /\ req[r1].err = "load" /\ req[r2].err = "load"
        /\ req[r1].pc = "raised" /\ req[r2].pc = "raised"
        /\ req[r1].chat_id = req[r2].chat_id
        /\ RecordsOf(req[r1].chat_id) = {}
        /\ NamespaceOf(req[r1].chat_id) \notin DOMAIN vectors

\* C6: no compensating rollback: an ingestion whose upsert succeeded and whose
\* record write failed has raised, its chunks are (and stay) in the chat's
\* namespace, and no record of it exists.
C6_OrphanedVectors ==
    \A r \in Ingests :
        req[r].err = "record" =>
            /\ req[r].pc = "raised"
            /\ req[r].steps = <<"load", "upsert", "record">>
            /\ "chat_" \o req[r].chat_id \in DOMAIN vectors
            /\ req[r].splits \subseteq vectors["chat_" \o req[r].chat_id]
            /\ \A rec \in records : rec.id # req[r].doc_id

\* the orphaned chunks were retrieved by a query
C6_Witness ==
    \E r \in Ingests, q \in Queries :
        /\ req[r].err = "record"
        /\ req[r].splits # {}
        /\ req[q].docs \cap req[r].splits # {}
        /\ RecordsOf(req[r].chat_id) = {}

\* C7 as stated: no step of a query changes the set of namespaces, the chunks
\* of a namespace, the records or the chat messages.
C7_QueryChangesNothing ==
    [][ (\E r \in Queries : Steps(r)) =>
            /\ vectors' = vectors
            /\ records' = records
            /\ chats' = chats
      ]_vars

\* C7 amended: no step of a query changes a record, a chat message or the
\* chunks of an existing namespace; the only change a query makes is that the
\* namespace it opens, when it did not exist, exists afterwards and is empty;
\* the retrieval of a query whose namespace holds no chunk yields an empty
\* context and the query goes on to generation.
C7_QueryOnlyCreatesEmptyNamespace ==
    [][ \A r \in Queries :
          Steps(r) =>
            /\ records' = records
            /\ chats' = chats
            /\ \A n \in DOMAIN vectors :
                  n \in DOMAIN vectors' /\ vectors'[n] = vectors[n]
            /\ \A n \in DOMAIN vectors' \ DOMAIN vectors :
                  /\ n = "chat_" \o req[r].chat_id
                  /\ req[r].pc = "received"
                  /\ vectors'[n] = {}
            /\ (req[r].pc = "received" /\ req'[r].pc = "namespace-loaded") =>
                  "chat_" \o req[r].chat_id \in DOMAIN vectors'
            /\ (req'[r].pc = "retrieved" /\ req[r].pc # "retrieved") =>
                  /\ req'[r].docs \subseteq vectors["chat_" \o req[r].chat_id]
                  /\ vectors["chat_" \o req[r].chat_id] = {} =>
                        req'[r].docs = {}
      ]_vars

\* a query created its chat's namespace, retrieved nothing and was answered
C7_Witness ==
    \E r \in Queries :
        /\ IngestsOf(req[r].chat_id) = {}
        /\ NamespaceOf(req[r].chat_id) \in DOMAIN vectors
        /\ ChunksOf(req[r].chat_id) = {}
        /\ req[r].docs = {}
        /\ req[r].pc = "answered"

\* C8: concurrent ingestions into one chat are benign: once every ingestion
\* started for a chat has returned, the chat's namespace holds exactly the
\* chunks of all of them and the document store exactly one record per call,
\* whatever the interleaving of their steps.
C8_ConcurrentIngestionsBenign ==
    \A c \in ChatIds :
        (IngestsOf(c) # {} /\ \A r \in IngestsOf(c) : req[r].pc = "returned") =>
            /\ "chat_" \o c \in DOMAIN vectors
            /\ vectors["chat_" \o c] = UNION {req[r].splits : r \in IngestsOf(c)}
            /\ Cardinality(vectors["chat_" \o c]) =
                  SumChunkCount({[chunk_count |-> Cardinality(req[r].splits),
                                  id |-> r] : r \in IngestsOf(c)})
            /\ Cardinality(RecordsOf(c)) = Cardinality(IngestsOf(c))
            /\ \A r \in IngestsOf(c) :
                  \E rec \in RecordsOf(c) :
                      /\ rec.id = req[r].doc_id
                      /\ rec.chunk_count = Cardinality(req[r].splits)
                      /\ rec.type = req[r].kind
                      /\ rec.name = req[r].source

C8_Witness ==
    \E r1, r2 \in Ingests :
        /\ r1 # r2
        /\ req[r1].chat_id = req[r2].chat_id
        /\ req[r1].pc = "returned" /\ req[r2].pc = "returned"
        /\ req[r1].splits # {} /\ req[r2].splits # {}
        /\ req[r1].kind = "document" /\ req[r2].kind = "website"

\* C9 as stated: the steps of a query come in the order namespace load,
\* retrieval, history read, prompt building, generation.
C9_StatedOrder ==
    \A r \in Queries :
        IsPrefix(req[r].steps, <<"namespace-load", "retrieval", "history-read",
                                 "prompt-build", "generation">>)

C9_CodeOrder ==
    <<"namespace-load", "history-read", "prompt-build", "retrieval",
      "generation">>

C9_States ==
    <<"received", "namespace-loaded", "history-assembled", "prompt-built",
      "retrieved", "answered">>

\* C9 amended: the steps of a query come in the order namespace load, history
\* read and assembly, prompt building, retrieval, generation (the retrieval is
\* run by the chain, after the prompt is built); each step is attempted at
\* most once; the request ends in exactly one of answered or degraded; a
\* failed step is the last step and moves directly to degraded.
C9_QueryStateMachine ==
    [][ \A r \in Queries :
          /\ IsPrefix(req'[r].steps, C9_CodeOrder)
          /\ req'[r].err = "none" =>
                req'[r].pc = C9_States[Len(req'[r].steps) + 1]
          /\ req'[r].err # "none" =>
                /\ req'[r].pc = "degraded"
                /\ req'[r].steps[Len(req'[r].steps)] = req'[r].err
          /\ req'[r].pc = "answered" => req'[r].steps = C9_CodeOrder
          /\ Steps(r) =>
                /\ Len(req'[r].steps) = Len(req[r].steps) + 1
                /\ req[r].err = "none"
                /\ req[r].pc # "answered"
      ]_vars

C9_Witness ==
    \E r1, r2 \in Queries :
        /\ req[r1].pc = "answered"
        /\ req[r1].steps = C9_CodeOrder
        /\ req[r2].pc = "degraded"
        /\ req[r2].steps = <<"namespace-load", "history-read">>

\* C10 as stated: for every chat the namespace holds at least the recorded
\* chunk counts, with equality exactly when no record write has failed after
\* its upsert.
C10_EqualityUnlessRecordFailed ==
    \A c \in ChatIds :
        /\ Cardinality(ChunksOf(c)) >= SumChunkCount(RecordsOf(c))
        /\ Cardinality(ChunksOf(c)) = SumChunkCount(RecordsOf(c)) <=>
              ~ \E r \in IngestsOf(c) : req[r].err = "record"

\* C10 amended: a record is written only after its chunks were upserted into
\* namespace "chat_<record.chat_id>", so for every chat the namespace holds at
\* least the recorded chunk counts, with equality exactly when every upsert of
\* at least one chunk has had its record written: none has failed its record
\* write and none is still between its upsert and its record write.
C10_RecordedChunksIndexed ==
    /\ \A rec \in records :
          \E r \in Ingests :
              /\ req[r].doc_id = rec.id
              /\ req[r].chat_id = rec.chat_id
              /\ rec.chunk_count = Cardinality(req[r].splits)
              /\ "chat_" \o rec.chat_id \in DOMAIN vectors
              /\ req[r].splits \subseteq vectors["chat_" \o rec.chat_id]
    /\ \A c \in ChatIds :
          /\ Cardinality(ChunksOf(c)) >= SumChunkCount(RecordsOf(c))
          /\ Cardinality(ChunksOf(c)) = SumChunkCount(RecordsOf(c)) <=>
                ~ \E r \in IngestsOf(c) :
                      /\ req[r].splits # {}
                      /\ req[r].pc = "upserted" \/ req[r].err = "record"

C10_Witness ==
    \E r1, r2 \in Ingests :
        /\ req[r1].chat_id = req[r2].chat_id
        /\ req[r1].pc = "returned" /\ req[r1].splits # {}
        /\ req[r2].err = "record" /\ req[r2].splits # {}
        /\ Cardinality(ChunksOf(req[r1].chat_id)) >
              SumChunkCount(RecordsOf(req[r1].chat_id))

====
